---- MODULE Spec2Model ----
(***************************************************************************)
(* Model of the second-assessor allocation run of                          *)
(* allocate_second_markers.py: build_assessor_table followed by the        *)
(* sequential greedy pass of allocate_assessors.                           *)
(*                                                                         *)
(* Numbers.  Capacities are real-valued in the program; here a capacity is *)
(* an integer count of 1/CapDen units, so one assignment costs CapDen      *)
(* units.  A similarity score is an integer count of 1/SimDen units in     *)
(* 0..SimDen.  Scores are kept as exact fractions <<num, den>> with        *)
(* den > 0 and compared by cross-multiplication.                           *)
(***************************************************************************)
EXTENDS Integers, Naturals, Sequences, FiniteSets, TLC

\* ------------------------------------------------------------------ bounds
MaxProjects == 3      \* longest projects table
MaxCap == 2           \* largest max_second_mark, in whole assignments
CapDen == 2           \* capacities are multiples of 1/CapDen
SimDen == 2           \* similarity scores are multiples of 1/SimDen
MaxSimProjects == 1   \* most project profiles given to build_similarity_matrix
MaxSimAssessors == 2  \* most assessor profiles given to build_similarity_matrix
FloatBits == 12       \* significand width of the modelled floating point

\* --------------------------------------------------------- program constants
FAIRNESS_WEIGHT == 55   \* 0.55, in hundredths
MATCH_WEIGHT == 45      \* 0.45, in hundredths
UNALLOCATED == "UNALLOCATED"

\* ------------------------------------------------------------------ inputs
\* Rows of supervisor_set.csv: one row per assessor, usernames unique (the
\* file is the output of a groupby on the username in
\* build_supervisor_set.py).
AssessorRows ==
  << [username |-> "a1", merged_keywords |-> "k1", merged_types |-> "t1"],
     [username |-> "a2", merged_keywords |-> "k2", merged_types |-> "t2"],
     [username |-> "a3", merged_keywords |-> "k3", merged_types |-> "t3"] >>

\* Values of capacity["max_second_mark"]: Tot.Projects plus a signed
\* adjustment, so negative and fractional values occur.  A negative
\* fraction, zero, a fraction below one, one, one and a fraction, and the
\* largest whole capacity.
CapVals == {0 - 1, 0, 1, CapDen, CapDen + 1, MaxCap * CapDen}

\* Capacities of the three-assessor inputs: one and the largest.
WideCapVals == {CapDen, MaxCap * CapDen}

\* Similarity scores: no overlap, the smallest positive score, identical text.
SimVals == {0, 1, SimDen}

VARIABLES
  supervisor_set,     \* supervisor_set.csv
  capacity,           \* capacity table: Username -> max_second_mark (rows may be missing)
  assessors,          \* assessor table built by build_assessor_table
  projects,           \* projects["Username"], the primary supervisor of each project
  similarity_i,       \* similarity[i], the matrix row read by the last iteration
  capacities,         \* remaining capacity per assessor
  capacities_initial, \* initial capacity per assessor
  supervisor_pairs,   \* primary supervisor -> assessors already used for it
  second_supervisor,  \* output column
  second_keywords,    \* output column
  second_types,       \* output column
  i,                  \* number of projects processed (loop index)
  pc,                 \* "loop" while in the for loop, "done" after the return
  capacity_updated,   \* capacity_updated.csv, << >> until it is computed
  sim_projects,       \* build_similarity_matrix: keywords_project, types_project
  sim_assessors,      \* build_similarity_matrix: merged_keywords, merged_types
  similarity,         \* build_similarity_matrix: the returned matrix
  values,             \* merge_unique: the Series of tag strings of one group
  merged              \* merge_unique: the returned string

vars == << supervisor_set, capacity, assessors, projects, similarity_i, capacities,
           capacities_initial, supervisor_pairs, second_supervisor,
           second_keywords, second_types, i, pc, capacity_updated,
           sim_projects, sim_assessors, similarity, values, merged >>

\* The variables of the allocation pass, of the similarity engine and of
\* merge_unique.
alloc_vars == << supervisor_set, capacity, assessors, projects, similarity_i,
                 capacities, capacities_initial, supervisor_pairs,
                 second_supervisor, second_keywords, second_types, i,
                 capacity_updated >>
sim_vars == << sim_projects, sim_assessors, similarity >>
merge_vars == << values, merged >>

\* A component that takes no part in a run keeps empty tables.
AllocIdle ==
  /\ supervisor_set = << >> /\ capacity = << >> /\ assessors = << >>
  /\ projects = << >> /\ similarity_i = << >> /\ capacities = << >>
  /\ capacities_initial = << >> /\ supervisor_pairs = << >>
  /\ second_supervisor = << >> /\ second_keywords = << >>
  /\ second_types = << >> /\ i = 0 /\ capacity_updated = << >>
SimIdle ==
  /\ sim_projects = << >> /\ sim_assessors = << >> /\ similarity = << >>
MergeIdle ==
  /\ values = << >> /\ merged = << >>

n_projects == Len(projects)

AssessorNames == { supervisor_set[k].username : k \in 1..Len(supervisor_set) }

Range(s) == { s[k] : k \in 1..Len(s) }

\* ------------------------------------------------------ build_assessor_table
\* As build_assessor_table, but a missing capacity is filled with 1.
build_assessor_table_fill1(sset, cap) ==
  [ k \in 1..Len(sset) |->
      [ username        |-> sset[k].username,
        merged_keywords |-> sset[k].merged_keywords,
        merged_types    |-> sset[k].merged_types,
        max_second_mark |-> IF sset[k].username \in DOMAIN cap
                            THEN cap[sset[k].username]
                            ELSE CapDen ] ]

\* Left merge of supervisor_set with capacity on the username, then
\* fillna(0) on max_second_mark.
build_assessor_table(sset, cap) ==
  [ k \in 1..Len(sset) |->
      [ username        |-> sset[k].username,
        merged_keywords |-> sset[k].merged_keywords,
        merged_types    |-> sset[k].merged_types,
        max_second_mark |-> IF sset[k].username \in DOMAIN cap
                            THEN cap[sset[k].username]
                            ELSE 0 ] ]

\* dict(zip(assessors["username"], assessors["max_second_mark"]))
capacities_of(tbl) ==
  [ u \in { tbl[k].username : k \in 1..Len(tbl) } |->
      tbl[ CHOOSE k \in 1..Len(tbl) :
             /\ tbl[k].username = u
             /\ \A j \in (k + 1)..Len(tbl) : tbl[j].username # u
         ].max_second_mark ]

\* capacities.get(username, 0)
capacities_get(username) ==
  IF username \in DOMAIN capacities THEN capacities[username] ELSE 0

\* ----------------------------------------------------------- scoring
\* current_load / max_load
load_ratio(username) ==
  LET max_load == capacities_initial[username]
      current_load == max_load - capacities[username]
  IN  << current_load, max_load >>

\* 1 - load_ratio
fairness_score(username) ==
  LET r == load_ratio(username) IN << r[2] - r[1], r[2] >>

\* FAIRNESS_WEIGHT * fairness_score + MATCH_WEIGHT * sim_score
composite_score(username, sim_score) ==
  LET f == fairness_score(username)
  IN  << FAIRNESS_WEIGHT * f[1] * SimDen + MATCH_WEIGHT * sim_score * f[2],
         100 * f[2] * SimDen >>

\* Order on fractions with positive denominators.
ScoreLess(x, y) == x[1] * y[2] < y[1] * x[2]

\* ----------------------------------------------------------- candidate rules
Rule1Excluded_off(username, primary) == FALSE
Rule2Excluded_off(username, primary) == FALSE
Rule3Excluded_strict(username) == capacities_get(username) < 0
Rule3Excluded_off(username) == FALSE

\* Rule 1: cannot mark own project
Rule1Excluded(username, primary) == username = primary
\* Rule 2: only one project per primary supervisor
Rule2Excluded(username, primary) == username \in supervisor_pairs[primary]
\* Rule 3: must have remaining capacity
Rule3Excluded(username) == capacities_get(username) <= 0
\* max_load == 0: cannot be used at all
ZeroLoadExcluded(username) == capacities_initial[username] = 0

Eligible(username, primary) ==
  /\ ~Rule1Excluded(username, primary)
  /\ ~Rule2Excluded(username, primary)
  /\ ~Rule3Excluded(username)
  /\ ~ZeroLoadExcluded(username)

\* The inner for loop: the candidates list in assessor-table order.
RECURSIVE candidates_upto(_, _, _)
candidates_upto(k, primary, sim_row) ==
  IF k = 0 THEN << >>
  ELSE LET rest == candidates_upto(k - 1, primary, sim_row)
           username == assessors[k].username
       IN  IF Eligible(username, primary)
           THEN Append(rest, [ username |-> username,
                               composite_score |->
                                 composite_score(username, sim_row[k]) ])
           ELSE rest

candidates(primary, sim_row) ==
  candidates_upto(Len(assessors), primary, sim_row)

\* candidates.sort(key=lambda x: x[1], reverse=True): a stable sort, equal
\* scores keep their list order.
\* As InsertDesc, but a later candidate is placed before an equal score.
RECURSIVE InsertDesc_unstable(_, _)
InsertDesc_unstable(c, s) ==
  IF s = << >> THEN << c >>
  ELSE IF ~ScoreLess(c.composite_score, s[Len(s)].composite_score)
       THEN Append(InsertDesc_unstable(c, SubSeq(s, 1, Len(s) - 1)), s[Len(s)])
       ELSE Append(s, c)

RECURSIVE InsertDesc(_, _)
InsertDesc(c, s) ==
  IF s = << >> THEN << c >>
  ELSE IF ScoreLess(s[Len(s)].composite_score, c.composite_score)
       THEN Append(InsertDesc(c, SubSeq(s, 1, Len(s) - 1)), s[Len(s)])
       ELSE Append(s, c)

RECURSIVE sort_desc(_)
sort_desc(cands) ==
  IF cands = << >> THEN << >>
  ELSE InsertDesc(cands[Len(cands)],
                  sort_desc(SubSeq(cands, 1, Len(cands) - 1)))

\* As chosen_of, but the sort is ascending (reverse=True left out).
chosen_of_ascending(cands) == sort_desc(cands)[Len(cands)].username

\* candidates[0][0] after the sort
chosen_of(cands) == sort_desc(cands)[1].username

\* As assessor_row, but without the filter on the username.
assessor_row_first(chosen) == assessors[1]

\* assessors.loc[assessors["username"] == chosen].iloc[0]
assessor_row(chosen) ==
  assessors[ CHOOSE k \in 1..Len(assessors) :
               /\ assessors[k].username = chosen
               /\ \A j \in 1..(k - 1) : assessors[j].username # chosen ]

\* ------------------------------------------------------------------- Init
\* The inputs of a run.  Two families are enumerated: two assessors with
\* every capacity (missing row, negative, zero, fractional, whole) and two
\* outside supervisors; three assessors with whole positive capacities,
\* projects of a1 and of one outside supervisor, and a projects table one
\* row shorter.
Inputs(sset, caps, sups, n) ==
  /\ supervisor_set = sset
  /\ capacity \in caps
  /\ projects \in UNION { [1..m -> sups] : m \in 0..n }

Init ==
  /\ \/ Inputs(SubSeq(AssessorRows, 1, 2),
               UNION { [D -> CapVals] : D \in SUBSET {"a1", "a2"} },
               {"a1", "a2", "s1", "s2"}, MaxProjects)
     \/ Inputs(AssessorRows,
               [{"a1", "a2", "a3"} -> WideCapVals],
               {"a1", "s1"}, MaxProjects - 1)
  /\ assessors = build_assessor_table(supervisor_set, capacity)
  /\ capacities = capacities_of(assessors)
  /\ capacities_initial = capacities
  /\ supervisor_pairs = [ sup \in Range(projects) |-> {} ]
  /\ similarity_i = << >>
  /\ second_supervisor = << >>
  /\ second_keywords = << >>
  /\ second_types = << >>
  /\ i = 0
  /\ pc = "loop"
  /\ capacity_updated = << >>
  /\ SimIdle
  /\ MergeIdle

\* --------------------------------------------------------------- loop body
\* As Unallocate, but no row is appended to the output columns.
Unallocate_skip ==
  UNCHANGED << second_supervisor, second_keywords, second_types,
               capacities, supervisor_pairs >>

\* As Unallocate, but the derived fields are not empty.
Unallocate_nan ==
  /\ second_supervisor' = Append(second_supervisor, UNALLOCATED)
  /\ second_keywords' = Append(second_keywords, "nan")
  /\ second_types' = Append(second_types, "nan")
  /\ UNCHANGED << capacities, supervisor_pairs >>

\* No eligible candidates
Unallocate ==
  /\ second_supervisor' = Append(second_supervisor, UNALLOCATED)
  /\ second_keywords' = Append(second_keywords, "")
  /\ second_types' = Append(second_types, "")
  /\ UNCHANGED << capacities, supervisor_pairs >>

\* As Commit, but the exclusion set is not updated.
Commit_noadd(primary, chosen) ==
  /\ second_supervisor' = Append(second_supervisor, chosen)
  /\ supervisor_pairs' = supervisor_pairs
  /\ capacities' = [ capacities EXCEPT ![chosen] = @ - CapDen ]
  /\ second_keywords' =
       Append(second_keywords, assessor_row(chosen).merged_keywords)
  /\ second_types' =
       Append(second_types, assessor_row(chosen).merged_types)

\* As Commit, but the exclusion set is overwritten, not extended.
Commit_overwrite(primary, chosen) ==
  /\ second_supervisor' = Append(second_supervisor, chosen)
  /\ supervisor_pairs' = [ supervisor_pairs EXCEPT ![primary] = {chosen} ]
  /\ capacities' = [ capacities EXCEPT ![chosen] = @ - CapDen ]
  /\ second_keywords' =
       Append(second_keywords, assessor_row(chosen).merged_keywords)
  /\ second_types' =
       Append(second_types, assessor_row(chosen).merged_types)

\* As Commit, but every assessor's capacity is decremented.
Commit_all(primary, chosen) ==
  /\ second_supervisor' = Append(second_supervisor, chosen)
  /\ supervisor_pairs' = [ supervisor_pairs EXCEPT ![primary] = @ \cup {chosen} ]
  /\ capacities' = [ u \in DOMAIN capacities |-> capacities[u] - CapDen ]
  /\ second_keywords' =
       Append(second_keywords, assessor_row(chosen).merged_keywords)
  /\ second_types' =
       Append(second_types, assessor_row(chosen).merged_types)

\* As Commit, but the capacity is incremented.
Commit_increment(primary, chosen) ==
  /\ second_supervisor' = Append(second_supervisor, chosen)
  /\ supervisor_pairs' = [ supervisor_pairs EXCEPT ![primary] = @ \cup {chosen} ]
  /\ capacities' = [ capacities EXCEPT ![chosen] = @ + CapDen ]
  /\ second_keywords' =
       Append(second_keywords, assessor_row(chosen).merged_keywords)
  /\ second_types' =
       Append(second_types, assessor_row(chosen).merged_types)

\* Commit allocation
Commit(primary, chosen) ==
  /\ second_supervisor' = Append(second_supervisor, chosen)
  /\ supervisor_pairs' =
       [ supervisor_pairs EXCEPT ![primary] = @ \cup {chosen} ]
  /\ capacities' = [ capacities EXCEPT ![chosen] = @ - CapDen ]
  /\ second_keywords' =
       Append(second_keywords, assessor_row(chosen).merged_keywords)
  /\ second_types' =
       Append(second_types, assessor_row(chosen).merged_types)

\* One iteration of "for i in range(n_projects)".
AllocateProject ==
  /\ pc = "loop"
  /\ i < n_projects
  /\ \E sim_row \in [1..Len(assessors) -> SimVals] :
       LET primary == projects[i + 1]
           cands == candidates(primary, sim_row)
       IN  /\ similarity_i' = sim_row
           /\ IF cands = << >>
              THEN Unallocate
              ELSE Commit(primary, chosen_of(cands))
  /\ i' = i + 1
  /\ UNCHANGED << supervisor_set, capacity, assessors, projects,
                  capacities_initial, pc, capacity_updated >>
  /\ UNCHANGED sim_vars
  /\ UNCHANGED merge_vars

\* As load_counts, but every assigned assessor is counted once.
load_counts_once(column) ==
  [ u \in Range(column) \ {UNALLOCATED} |-> 1 ]

\* result[result["second_supervisor"] != "UNALLOCATED"]
\*   .groupby("second_supervisor").size()
load_counts(column) ==
  [ u \in Range(column) \ {UNALLOCATED} |->
      Cardinality({ p \in 1..Len(column) : column[p] = u }) ]

\* capacity_updated: one row per row of the capacity table, with
\* second_marking_load = Username.map(load_counts).fillna(0) and
\* remaining_capacity = max_second_mark - second_marking_load.
update_capacity(cap, column) ==
  [ u \in DOMAIN cap |->
      LET counts == load_counts(column)
          second_marking_load == IF u \in DOMAIN counts THEN counts[u] ELSE 0
      IN  [ max_second_mark     |-> cap[u],
            second_marking_load |-> second_marking_load,
            remaining_capacity  |-> cap[u] - second_marking_load * CapDen ] ]

\* The loop is exhausted: the output columns are attached and returned, and
\* main() derives the updated capacity table from them.
Return ==
  /\ pc = "loop"
  /\ i = n_projects
  /\ pc' = "done"
  /\ capacity_updated' = update_capacity(capacity, second_supervisor)
  /\ UNCHANGED sim_vars
  /\ UNCHANGED merge_vars
  /\ UNCHANGED << supervisor_set, capacity, assessors, projects,
                  similarity_i, capacities,
                  capacities_initial, supervisor_pairs, second_supervisor,
                  second_keywords, second_types, i >>

Next == AllocateProject \/ Return

Spec == Init /\ [][Next]_vars

\* ======================================================= similarity engine
\* Floating point.  A float is << m, e >> with value m * 2^e, either
\* << 0, 0 >> or with 2^(FloatBits-1) <= m < 2^FloatBits; every operation
\* rounds its exact result to nearest, ties to even, as IEEE 754 does.  The
\* program computes in binary64 (53 bits); the width is reduced so that the
\* products fit the integers of the model checker.
RECURSIVE Pow2(_)
Pow2(k) == IF k = 0 THEN 1 ELSE 2 * Pow2(k - 1)

RECURSIVE Bits(_)
Bits(n) == IF n = 0 THEN 0 ELSE 1 + Bits(n \div 2)

Zero == << 0, 0 >>
One == << Pow2(FloatBits - 1), 1 - FloatBits >>

\* n * 2^e (plus a non-zero amount below the last bit of n when sticky),
\* rounded to FloatBits bits.
Round(n, e, sticky) ==
  LET b == Bits(n) IN
  IF n = 0 THEN Zero
  ELSE IF b <= FloatBits
  THEN << n * Pow2(FloatBits - b), e - (FloatBits - b) >>
  ELSE LET k == b - FloatBits
           q == n \div Pow2(k)
           r == n % Pow2(k)
           half == Pow2(k - 1)
           up == \/ r > half
                 \/ r = half /\ (sticky \/ q % 2 = 1)
           q2 == IF up THEN q + 1 ELSE q
       IN  IF q2 = Pow2(FloatBits)
           THEN << Pow2(FloatBits - 1), e + k + 1 >>
           ELSE << q2, e + k >>

FromInt(c) == Round(c, 0, FALSE)

FMul(x, y) ==
  IF x[1] = 0 \/ y[1] = 0 THEN Zero
  ELSE Round(x[1] * y[1], x[2] + y[2], FALSE)

FAdd(x, y) ==
  IF x[1] = 0 THEN y
  ELSE IF y[1] = 0 THEN x
  ELSE LET e == IF x[2] < y[2] THEN x[2] ELSE y[2]
       IN  Round(x[1] * Pow2(x[2] - e) + y[1] * Pow2(y[2] - e), e, FALSE)

FDiv(x, y) ==
  IF x[1] = 0 THEN Zero
  ELSE LET n == x[1] * Pow2(FloatBits + 2)
       IN  Round(n \div y[1], x[2] - y[2] - (FloatBits + 2), n % y[1] # 0)

\* Largest r with r * r <= n, found bit by bit.
RECURSIVE ISqrtFrom(_, _, _)
ISqrtFrom(n, r, bit) ==
  IF bit = 0 THEN r
  ELSE IF (r + bit) * (r + bit) <= n
       THEN ISqrtFrom(n, r + bit, bit \div 2)
       ELSE ISqrtFrom(n, r, bit \div 2)

FSqrt(x) ==
  IF x[1] = 0 THEN Zero
  ELSE LET s == IF (x[2] - (FloatBits + 2)) % 2 = 0
                THEN FloatBits + 2 ELSE FloatBits + 3
           n == x[1] * Pow2(s)
           r == ISqrtFrom(n, 0, Pow2(FloatBits + 2))
       IN  Round(r, (x[2] - s) \div 2, r * r # n)

\* x <= y on floats.
FLeq(x, y) ==
  LET e == IF x[2] < y[2] THEN x[2] ELSE y[2]
  IN  x[1] * Pow2(x[2] - e) <= y[1] * Pow2(y[2] - e)

\* log(a / b) in units of 2^-20, for the ratios (1 + n) / (1 + df).
Ln20 ==
  <<2, 2>> :> 0 @@
  <<3, 2>> :> 425161 @@
  <<3, 3>> :> 0 @@
  <<4, 2>> :> 726817 @@
  <<4, 3>> :> 301657 @@
  <<4, 4>> :> 0 @@
  <<5, 2>> :> 960800 @@
  <<5, 3>> :> 535639 @@
  <<5, 4>> :> 233983 @@
  <<5, 5>> :> 0 @@
  <<6, 2>> :> 1151978 @@
  <<6, 3>> :> 726817 @@
  <<6, 4>> :> 425161 @@
  <<6, 5>> :> 191178 @@
  <<6, 6>> :> 0 @@
  <<7, 2>> :> 1313617 @@
  <<7, 3>> :> 888456 @@
  <<7, 4>> :> 586800 @@
  <<7, 5>> :> 352817 @@
  <<7, 6>> :> 161639 @@
  <<7, 7>> :> 0 @@
  <<8, 2>> :> 1453635 @@
  <<8, 3>> :> 1028474 @@
  <<8, 4>> :> 726817 @@
  <<8, 5>> :> 492835 @@
  <<8, 6>> :> 301657 @@
  <<8, 7>> :> 140018 @@
  <<8, 8>> :> 0

\* TfidfTransformer, smooth_idf: log((1 + n) / (1 + df)) + 1
idf(n, df) == FAdd(Round(Ln20[<< 1 + n, 1 + df >>], 0 - 20, FALSE), One)

\* The profiles.  A tag field is a sequence of words, or NaN when the cell
\* is empty in the file.
NaN == [isna |-> TRUE, value |-> << >>]
\* A cell holding the given text.
Text(value) == [isna |-> FALSE, value |-> value]
\* The words of the profiles, content words in vocabulary (sorted) order.
VocabOrder == << "cell", "gene", "rna" >>
\* stop_words="english"
StopWords == { "the" }

\* An empty profile, a stop-word-only profile, and profiles of one, two and
\* three distinct terms, one with a repeated term.
ProfilePool ==
  << [keywords |-> NaN, types |-> NaN],
     [keywords |-> Text(<< "the" >>), types |-> Text(<< >>)],
     [keywords |-> Text(<< "gene" >>), types |-> NaN],
     [keywords |-> Text(<< "gene" >>), types |-> Text(<< "cell" >>)],
     [keywords |-> Text(<< "the", "cell" >>),
      types |-> Text(<< "cell", "rna" >>)],
     [keywords |-> Text(<< "gene", "cell" >>), types |-> Text(<< "rna" >>)] >>

\* The tables of 1..max profiles, rows in pool order (a row's vector and the
\* document frequencies do not depend on the order of the rows).
ProfileTables(max) ==
  UNION { { [ k \in 1..n |-> ProfilePool[f[k]] ] :
              f \in { g \in [1..n -> 1..Len(ProfilePool)] :
                        \A k \in 1..(n - 1) : g[k] <= g[k + 1] } } :
          n \in 1..max }

\* .fillna("")
fillna(field) == IF field.isna THEN << >> ELSE field.value

\* keywords.fillna("") + " " + types.fillna("")
profile_text(row) == fillna(row.keywords) \o fillna(row.types)

\* The analyzer: the word tokens that are not stop words.
IsContentWord(w) == w \notin StopWords
analyze(text) == SelectSeq(text, IsContentWord)

\* Number of occurrences of term w in a tokenised document.
RECURSIVE term_count(_, _)
term_count(doc, w) ==
  IF doc = << >> THEN 0
  ELSE (IF Head(doc) = w THEN 1 ELSE 0) + term_count(Tail(doc), w)

\* The fitted vocabulary: the terms of the combined corpus, sorted.
vocabulary(docs) ==
  LET Occurs(w) == \E d \in 1..Len(docs) : term_count(docs[d], w) > 0
  IN  SelectSeq(VocabOrder, Occurs)

document_frequency(docs, w) ==
  Cardinality({ d \in 1..Len(docs) : term_count(docs[d], w) > 0 })

\* Sequential sum of the squares of the first k entries (row norm).
RECURSIVE sum_squares(_, _)
sum_squares(x, k) ==
  IF k = 0 THEN Zero
  ELSE FAdd(sum_squares(x, k - 1), FMul(x[k], x[k]))

\* As normalize, but the row is returned as it is.
normalize_skip(x) == x

\* normalize(X, norm="l2"): a zero row stays zero.
normalize(x) ==
  LET norm == FSqrt(sum_squares(x, Len(x)))
  IN  IF norm = Zero THEN x
      ELSE [ k \in 1..Len(x) |-> FDiv(x[k], norm) ]

\* Row of the tf-idf matrix of a document: tf * idf, then l2-normalised.
tfidf_row(doc, docs, vocab) ==
  normalize([ k \in 1..Len(vocab) |->
                FMul(FromInt(term_count(doc, vocab[k])),
                     idf(Len(docs), document_frequency(docs, vocab[k]))) ])

\* Sequential dot product of the first k entries.
RECURSIVE dot(_, _, _)
dot(x, y, k) ==
  IF k = 0 THEN Zero
  ELSE FAdd(dot(x, y, k - 1), FMul(x[k], y[k]))

\* cosine_similarity(P, A): both rows are normalised again, then multiplied.
cosine_similarity(x, y) == dot(normalize(x), normalize(y), Len(x))

\* The documents given to the vectorizer, tokenised.
corpus(project_rows, assessor_rows) ==
  LET all_text == [ k \in 1..Len(project_rows) |->
                      profile_text(project_rows[k]) ]
                  \o [ k \in 1..Len(assessor_rows) |->
                         profile_text(assessor_rows[k]) ]
  IN  [ k \in 1..Len(all_text) |-> analyze(all_text[k]) ]

\* fit_transform raises ValueError("empty vocabulary; perhaps the documents
\* only contain stop words") when the corpus has no term at all.
fit_raises(project_rows, assessor_rows) ==
  vocabulary(corpus(project_rows, assessor_rows)) = << >>

\* build_similarity_matrix when the fit succeeds: the matrix of cosine
\* similarities.
build_similarity_matrix(project_rows, assessor_rows) ==
  LET project_text == [ k \in 1..Len(project_rows) |->
                          profile_text(project_rows[k]) ]
      assessor_text == [ k \in 1..Len(assessor_rows) |->
                           profile_text(assessor_rows[k]) ]
      all_text == project_text \o assessor_text
      docs == [ k \in 1..Len(all_text) |-> analyze(all_text[k]) ]
      vocab == vocabulary(docs)
      tfidf == [ k \in 1..Len(docs) |-> tfidf_row(docs[k], docs, vocab) ]
      n == Len(project_text)
  IN  [ p \in 1..n |->
        [ a \in 1..Len(assessor_text) |->
            cosine_similarity(tfidf[p], tfidf[n + a]) ] ]

InitSim ==
  /\ sim_projects \in ProfileTables(MaxSimProjects)
  /\ sim_assessors \in ProfileTables(MaxSimAssessors)
  /\ similarity = << >>
  /\ pc = "texts"
  /\ AllocIdle
  /\ MergeIdle

\* pc becomes "built" when the matrix is returned, "raised" when the call
\* ends with the ValueError.
BuildSimilarity ==
  /\ pc = "texts"
  /\ IF fit_raises(sim_projects, sim_assessors)
     THEN /\ pc' = "raised"
          /\ similarity' = similarity
     ELSE /\ pc' = "built"
          /\ similarity' =
               build_similarity_matrix(sim_projects, sim_assessors)
  /\ UNCHANGED << sim_projects, sim_assessors >>
  /\ UNCHANGED alloc_vars
  /\ UNCHANGED merge_vars

NextSim == BuildSimilarity

SpecSim == InitSim /\ [][NextSim]_vars

\* ---------------------------------------------------------- merge_unique
\* build_supervisor_set.py.  A string is the sequence of its characters; a
\* value of the Series is Text(string), or NaN for an empty cell.
MaxValues == 2        \* most values in the Series given to merge_unique
MaxStrLen == 3        \* most characters of the value that ranges over all strings

Alphabet == { " ", ",", "a", "b" }

\* The code points, which order Python's strings.
CharRank == (" " :> 32) @@ ("," :> 44) @@ ("a" :> 97) @@ ("b" :> 98)

Strings(n) == UNION { [1..k -> Alphabet] : k \in 0..n }

\* Further values of the Series: an empty cell, tokens out of order, a
\* token with leading space, a token with trailing space before an empty
\* part, a single token.
ValuePool ==
  { NaN,
    Text(<< "b", ",", "a" >>),
    Text(<< " ", "a" >>),
    Text(<< "a", " ", "," >>),
    Text(<< "b" >>) }

\* x < y for Python strings: lexicographic by code point.
RECURSIVE StrLess(_, _)
StrLess(x, y) ==
  IF y = << >> THEN FALSE
  ELSE IF x = << >> THEN TRUE
  ELSE IF x[1] = y[1] THEN StrLess(Tail(x), Tail(y))
  ELSE CharRank[x[1]] < CharRank[y[1]]

\* values.dropna()
dropna(series) == SelectSeq(series, LAMBDA v : ~v.isna)

\* v.split(",")
RECURSIVE split(_)
split(v) ==
  IF \A k \in 1..Len(v) : v[k] # ","
  THEN << v >>
  ELSE LET k == CHOOSE c \in 1..Len(v) :
                  v[c] = "," /\ \A j \in 1..(c - 1) : v[j] # ","
       IN  << SubSeq(v, 1, k - 1) >> \o split(SubSeq(v, k + 1, Len(v)))

RECURSIVE lstrip(_)
lstrip(x) ==
  IF x # << >> /\ x[1] = " " THEN lstrip(Tail(x)) ELSE x

RECURSIVE rstrip(_)
rstrip(x) ==
  IF x # << >> /\ x[Len(x)] = " "
  THEN rstrip(SubSeq(x, 1, Len(x) - 1)) ELSE x

\* As strip, but only leading whitespace is removed.
strip_left(x) == lstrip(x)

\* x.strip()
strip(x) == rstrip(lstrip(x))

\* [x.strip() for x in v.split(",") if x.strip()]
parts(v) ==
  LET kept == SelectSeq(split(v), LAMBDA x : strip(x) # << >>)
  IN  [ k \in 1..Len(kept) |-> strip(kept[k]) ]

\* all_vals after the loop over values.dropna()
RECURSIVE extend_all(_)
extend_all(series) ==
  IF series = << >> THEN << >>
  ELSE parts(series[1].value) \o extend_all(Tail(series))

\* sorted(set(...)) of a set of strings
RECURSIVE sorted(_)
sorted(S) ==
  IF S = {} THEN << >>
  ELSE LET m == CHOOSE x \in S : \A y \in S \ {x} : StrLess(x, y)
       IN  << m >> \o sorted(S \ {m})

\* ", ".join(unique_vals)
RECURSIVE join(_)
join(toks) ==
  IF toks = << >> THEN << >>
  ELSE IF Len(toks) = 1 THEN toks[1]
  ELSE toks[1] \o << ",", " " >> \o join(Tail(toks))

merge_unique(series) ==
  LET all_vals == extend_all(dropna(series))
      unique_vals == sorted(Range(all_vals))
  IN  join(unique_vals)

InitMerge ==
  /\ values \in
       { << v >> \o rest :
           v \in { NaN } \cup { Text(s) : s \in Strings(MaxStrLen) },
           rest \in UNION { [1..k -> ValuePool] : k \in 0..(MaxValues - 1) } }
  /\ merged = << >>
  /\ pc = "values"
  /\ AllocIdle
  /\ SimIdle

MergeUnique ==
  /\ pc = "values"
  /\ merged' = merge_unique(values)
  /\ pc' = "merged"
  /\ UNCHANGED values
  /\ UNCHANGED alloc_vars
  /\ UNCHANGED sim_vars

NextMerge == MergeUnique

SpecMerge == InitMerge /\ [][NextMerge]_vars


TypeOK ==
  /\ i \in 0..n_projects
  /\ pc \in {"loop", "done"}
  /\ Len(second_supervisor) = i

\* ======================================================== properties
\* Helpers of the properties.  They are written from the ledger variables
\* directly, not through the operators of the pass.
Stepped == i' = i + 1

Assigned(p) == second_supervisor[p] # UNALLOCATED

load(u) ==
  Cardinality({ p \in 1..Len(second_supervisor) : second_supervisor[p] = u })

index_of(u) == CHOOSE k \in 1..Len(assessors) : assessors[k].username = u

\* An assessor passes all four exclusion rules for a project of primary.
Passes(u, primary) ==
  /\ u # primary
  /\ u \notin supervisor_pairs[primary]
  /\ capacities[u] > 0
  /\ capacities_initial[u] # 0

\* 0.55 * (1 - (initial - remaining) / initial) + 0.45 * similarity
StatedScore(u, sim_score) ==
  LET initial == capacities_initial[u]
      remaining == capacities[u]
  IN  << 55 * (initial - (initial - remaining)) * SimDen
           + 45 * sim_score * initial,
         100 * initial * SimDen >>

\* ---------------------------------------------------------------- C1
\* C1: at every point of the run, every assessor whose initial capacity is
\* non-negative has 0 <= remaining capacity <= initial capacity, and its
\* load never exceeds its initial capacity.
C1_CapacityWithinBounds ==
  \A u \in DOMAIN capacities :
    capacities_initial[u] >= 0 =>
      /\ 0 <= capacities[u]
      /\ capacities[u] <= capacities_initial[u]
      /\ load(u) * CapDen <= capacities_initial[u]

\* ---------------------------------------------------------------- C2
\* C2: two distinct assigned projects of the same primary supervisor never
\* have the same assessor.
C2_DistinctPerSupervisor ==
  \A p, q \in 1..Len(second_supervisor) :
    (p # q /\ projects[p] = projects[q] /\ Assigned(p) /\ Assigned(q))
      => second_supervisor[p] # second_supervisor[q]

\* Two projects of one supervisor are both assigned.
C2_Witness ==
  \E p, q \in 1..Len(second_supervisor) :
    p # q /\ projects[p] = projects[q] /\ Assigned(p) /\ Assigned(q)

\* ---------------------------------------------------------------- C3
\* C3: no project is assigned its own primary supervisor.
C3_NoSelfAssignment ==
  \A p \in 1..Len(second_supervisor) : second_supervisor[p] # projects[p]

\* Scenario B: the primary supervisor a1 is an unused assessor with spare
\* capacity and the perfect match of its own project, a2 matches nothing,
\* and a2 is the outcome.
C3_Witness ==
  /\ i >= 1
  /\ projects[i] = "a1"
  /\ similarity_i[1] = SimDen
  /\ similarity_i[2] = 0
  /\ capacities["a1"] > 0
  /\ capacities["a1"] = capacities_initial["a1"]
  /\ second_supervisor[i] = "a2"

\* ---------------------------------------------------------------- C4
\* C4: an assessor whose initial capacity is 0, or that has no row in the
\* capacity table, is never an assigned assessor.
C4_ZeroCapacityNeverAssigned ==
  \A u \in AssessorNames :
    (capacities_initial[u] = 0 \/ u \notin DOMAIN capacity)
      => u \notin Range(second_supervisor)

\* a1 has no capacity row, is the perfect match of a project of another
\* supervisor, and the project has been processed.
C4_Witness ==
  /\ i >= 1
  /\ "a1" \notin DOMAIN capacity
  /\ projects[i] # "a1"
  /\ similarity_i[1] = SimDen

\* ---------------------------------------------------------------- C5
\* C5: a project ends UNALLOCATED, with empty keyword and type fields, iff
\* every assessor is excluded by one of the four rules when the project is
\* processed; otherwise it is assigned to an assessor of the table; the pass
\* stays in the loop after an UNALLOCATED outcome.
C5_UnallocatedIffNoCandidate ==
  [][ Stepped =>
        LET primary == projects[i']
            out == second_supervisor'[i']
            AllExcluded ==
              \A k \in 1..Len(assessors) :
                LET u == assessors[k].username
                IN  \/ u = primary
                    \/ u \in supervisor_pairs[primary]
                    \/ capacities[u] <= 0
                    \/ capacities_initial[u] = 0
        IN  /\ (out = UNALLOCATED) <=> AllExcluded
            /\ out = UNALLOCATED =>
                  /\ second_keywords'[i'] = ""
                  /\ second_types'[i'] = ""
                  /\ pc' = "loop"
            /\ out # UNALLOCATED => out \in AssessorNames
    ]_vars

\* An UNALLOCATED project is followed by an assigned one.
C5_Witness ==
  \E p, q \in 1..Len(second_supervisor) :
    p < q /\ ~Assigned(p) /\ Assigned(q)

\* ---------------------------------------------------------------- C6
\* C6: the pass terminates: while in the loop the guard of the loop body or
\* of the return holds, and every step strictly decreases Remaining, which
\* is never negative; on
\* termination there is exactly one outcome per project, each an assessor or
\* UNALLOCATED; projects are processed in list order and a recorded outcome
\* is never revised.
Remaining == (n_projects - i) + (IF pc = "loop" THEN 1 ELSE 0)

C6_TerminatesWithOneOutcomeEach ==
  /\ [](pc # "done" => (pc = "loop" /\ (i < n_projects \/ i = n_projects)))
  /\ [](Remaining >= 0)
  /\ [][ Remaining' < Remaining ]_vars
  /\ [](pc = "done" =>
         /\ Len(second_supervisor) = n_projects
         /\ Len(second_keywords) = n_projects
         /\ Len(second_types) = n_projects
         /\ \A p \in 1..n_projects :
              second_supervisor[p] \in AssessorNames \cup {UNALLOCATED})
  /\ [][ /\ Len(second_supervisor') \in
             { Len(second_supervisor), Len(second_supervisor) + 1 }
         /\ Len(second_supervisor') = i'
         /\ \A p \in 1..Len(second_supervisor) :
              second_supervisor'[p] = second_supervisor[p]
         /\ projects' = projects
     ]_vars

\* A full-length run has returned with both kinds of outcome.
C6_Witness ==
  /\ pc = "done"
  /\ n_projects = MaxProjects
  /\ \E p, q \in 1..n_projects : Assigned(p) /\ ~Assigned(q)

\* ---------------------------------------------------------------- C7
Less(x, y) == x[1] * y[2] < y[1] * x[2]
Same(x, y) == x[1] * y[2] = y[1] * x[2]

\* C7: whenever a project is assigned, the chosen assessor passes the four
\* rules and its stated composite score, on the ledger before the commit, is
\* at least that of every other assessor passing them.
C7_ChosenHasMaximalScore ==
  [][ (Stepped /\ second_supervisor'[i'] # UNALLOCATED) =>
        LET primary == projects[i']
            out == second_supervisor'[i']
            score(u) == StatedScore(u, similarity_i'[index_of(u)])
        IN  /\ out \in AssessorNames
            /\ Passes(out, primary)
            /\ \A v \in AssessorNames :
                 Passes(v, primary) => ~Less(score(out), score(v))
    ]_vars

\* a1 is chosen although it already carries load, over the unused and
\* eligible a2: a better match outweighs the lower fairness.
C7_Witness ==
  /\ i >= 2
  /\ second_supervisor[i] = "a1"
  /\ projects[i] \notin AssessorNames
  /\ capacities["a1"] + CapDen < capacities_initial["a1"]
  /\ capacities["a2"] = capacities_initial["a2"]
  /\ capacities["a2"] > 0
  /\ "a2" \notin supervisor_pairs[projects[i]]

\* ---------------------------------------------------------------- C8
\* C8: the chosen assessor is the only one that passes the rules, is not
\* beaten on score, and precedes in the assessor table every other assessor
\* that ties with it; so equal inputs give the same choice.
C8_TieGoesToEarliest ==
  [][ (Stepped /\ second_supervisor'[i'] # UNALLOCATED) =>
        LET primary == projects[i']
            out == second_supervisor'[i']
            score(u) == StatedScore(u, similarity_i'[index_of(u)])
        IN  \A v \in AssessorNames \ {out} :
              Passes(v, primary) =>
                \/ Less(score(v), score(out))
                \/ /\ Same(score(v), score(out))
                   /\ index_of(out) < index_of(v)
    ]_vars

\* Three candidates for a project of s1: a1 unused but matching nothing,
\* a2 and a3 with exactly the same, higher, composite score; a2 was chosen.
C8_Witness ==
  /\ i >= 1
  /\ Len(assessors) = 3
  /\ projects[i] = "s1"
  /\ second_supervisor[i] = "a2"
  /\ supervisor_pairs["s1"] = {"a2"}
  /\ capacities["a1"] = capacities_initial["a1"]
  /\ similarity_i = << 0, SimDen, SimDen >>
  /\ capacities["a3"] > 0
  /\ (capacities["a2"] + CapDen) * capacities_initial["a3"]
       = capacities["a3"] * capacities_initial["a2"]

\* ---------------------------------------------------------------- C9
\* C9: remaining capacity never increases; an assessor whose remaining
\* capacity is 0 is not assigned by any later step and stays at 0; an
\* assessor whose capacity is a whole number k (2 in Scenario D) is assigned
\* at most k times.
C9_NoReplenishment ==
  /\ [][ \A u \in DOMAIN capacities :
           /\ capacities'[u] <= capacities[u]
           /\ capacities[u] = 0 =>
                /\ capacities'[u] = 0
                /\ Stepped => second_supervisor'[i'] # u
     ]_vars
  /\ [](\A u \in DOMAIN capacities :
          \A k \in 0..MaxCap :
            capacities_initial[u] = k * CapDen => load(u) <= k)

\* Scenario D: a1 has capacity 2, the three projects have three different
\* primary supervisors, a1 is the perfect match of the third, took the
\* first two and is not given the third.
C9_Witness ==
  /\ i = 3
  /\ capacities_initial["a1"] = 2 * CapDen
  /\ projects = << "a2", "s1", "s2" >>
  /\ second_supervisor[1] = "a1"
  /\ second_supervisor[2] = "a1"
  /\ second_supervisor[3] # "a1"
  /\ similarity_i[1] = SimDen
  /\ capacities["a1"] = 0

\* ---------------------------------------------------------------- C10
\* C10: a committed assignment of a to a project of S lowers a's remaining
\* capacity by exactly one assignment, adds a to S's exclusion set, and
\* records a's own merged keywords and types in the project's row.
C10_CommitEffect ==
  [][ (Stepped /\ second_supervisor'[i'] # UNALLOCATED) =>
        LET S == projects[i']
            a == second_supervisor'[i']
        IN  /\ capacities'[a] = capacities[a] - CapDen
            /\ supervisor_pairs'[S] = supervisor_pairs[S] \cup {a}
            /\ \E k \in 1..Len(supervisor_set) :
                 /\ supervisor_set[k].username = a
                 /\ second_keywords'[i'] = supervisor_set[k].merged_keywords
                 /\ second_types'[i'] = supervisor_set[k].merged_types
    ]_vars

\* The second assessor of the table was committed to the last project.
C10_Witness ==
  /\ i >= 1
  /\ second_supervisor[i] = "a2"
  /\ second_keywords[i] = "k2"
  /\ second_types[i] = "t2"

\* ---------------------------------------------------------------- C11
\* The assessors assigned so far to the processed projects of S.
AssignedTo(S) ==
  { second_supervisor[p] :
      p \in { q \in 1..Len(second_supervisor) :
                projects[q] = S /\ Assigned(q) } }

\* C11: every supervisor's exclusion set is exactly the set of assessors
\* assigned so far to its processed projects: empty at the start, without
\* the supervisor itself, and as large as the number of its projects
\* assigned so far.
C11_ExclusionSetIsAssignedSet ==
  /\ DOMAIN supervisor_pairs = Range(projects)
  /\ \A S \in DOMAIN supervisor_pairs :
       /\ supervisor_pairs[S] = AssignedTo(S)
       /\ S \notin supervisor_pairs[S]
       /\ Cardinality(supervisor_pairs[S]) =
            Cardinality({ q \in 1..Len(second_supervisor) :
                            projects[q] = S /\ Assigned(q) })
       /\ i = 0 => supervisor_pairs[S] = {}

\* A supervisor has two assessors in its exclusion set, another has one.
C11_Witness ==
  \E S, T \in DOMAIN supervisor_pairs :
    /\ Cardinality(supervisor_pairs[S]) = 2
    /\ Cardinality(supervisor_pairs[T]) = 1

\* ---------------------------------------------------------------- C16
\* C16: a step that ends UNALLOCATED leaves all remaining capacities and
\* exclusion sets unchanged; a step of supervisor S that ends ASSIGNED(a)
\* changes only a's remaining capacity and S's exclusion set; no step
\* changes the initial capacities or an outcome already recorded.
C16_StepFrame ==
  [][ /\ capacities_initial' = capacities_initial
      /\ DOMAIN capacities' = DOMAIN capacities
      /\ DOMAIN supervisor_pairs' = DOMAIN supervisor_pairs
      /\ \A p \in 1..Len(second_supervisor) :
           /\ second_supervisor'[p] = second_supervisor[p]
           /\ second_keywords'[p] = second_keywords[p]
           /\ second_types'[p] = second_types[p]
      /\ (~Stepped \/ second_supervisor'[i'] = UNALLOCATED) =>
           /\ capacities' = capacities
           /\ supervisor_pairs' = supervisor_pairs
      /\ (Stepped /\ second_supervisor'[i'] # UNALLOCATED) =>
           /\ \A u \in DOMAIN capacities \ {second_supervisor'[i']} :
                capacities'[u] = capacities[u]
           /\ capacities'[second_supervisor'[i']]
                # capacities[second_supervisor'[i']]
           /\ \A T \in DOMAIN supervisor_pairs \ {projects[i']} :
                supervisor_pairs'[T] = supervisor_pairs[T]
    ]_vars

\* After an assigned and an UNALLOCATED project, an assessor with positive
\* capacity and a supervisor with a project are both still untouched.
C16_Witness ==
  /\ \E p, q \in 1..Len(second_supervisor) : Assigned(p) /\ ~Assigned(q)
  /\ \E u \in DOMAIN capacities :
       capacities[u] > 0 /\ capacities[u] = capacities_initial[u]
  /\ \E T \in DOMAIN supervisor_pairs :
       /\ supervisor_pairs[T] = {}
       /\ \E p \in 1..Len(second_supervisor) : projects[p] = T

\* ---------------------------------------------------------------- C17
\* C17: an assessor that does not pass the rules for a project of S does
\* not pass them after any later step either; once a project of S is
\* UNALLOCATED, every later project of S is UNALLOCATED.
C17_EligibilityOnlyShrinks ==
  /\ [][ \A S \in DOMAIN supervisor_pairs : \A u \in DOMAIN capacities :
           ~Passes(u, S) => ~Passes(u, S)' ]_vars
  /\ [](\A p, q \in 1..Len(second_supervisor) :
          (p < q /\ projects[p] = projects[q] /\ ~Assigned(p))
            => ~Assigned(q))

\* A supervisor had a project assigned and then two projects UNALLOCATED.
C17_Witness ==
  \E r, p, q \in 1..Len(second_supervisor) :
    /\ r < p /\ p < q
    /\ projects[r] = projects[p] /\ projects[p] = projects[q]
    /\ Assigned(r) /\ ~Assigned(p) /\ ~Assigned(q)

\* ---------------------------------------------------------------- C18
\* C18: for an initial capacity c >= 0 the remaining capacity is always
\* greater than -1 and the load is at most ceil(c), that is load = 0 or
\* load - 1 < c; an assessor of negative initial capacity is never assigned.
C18_FractionalCapacityBound ==
  \A u \in DOMAIN capacities :
    /\ capacities_initial[u] >= 0 =>
         /\ capacities[u] > 0 - CapDen
         /\ load(u) = 0 \/ (load(u) - 1) * CapDen < capacities_initial[u]
    /\ capacities_initial[u] < 0 => load(u) = 0

\* An assessor of capacity one and a fraction carries two projects and its
\* remaining capacity is negative, next to an assessor of negative capacity.
C18_Witness ==
  \E u, v \in DOMAIN capacities :
    /\ capacities_initial[u] = CapDen + 1
    /\ load(u) = 2
    /\ capacities[u] < 0
    /\ capacities_initial[v] < 0
    /\ i >= 3

\* ---------------------------------------------------------------- C19
\* C19: an assessor that passes the remaining-capacity check has a positive
\* initial capacity, so the max_load == 0 check excludes nobody and the
\* division is defined, and its fairness score f satisfies 0 < f <= 1.
C19_FairnessWellDefined ==
  \A u \in DOMAIN capacities :
    ~Rule3Excluded(u) =>
      /\ capacities_initial[u] > 0
      /\ ~ZeroLoadExcluded(u)
      /\ fairness_score(u)[2] > 0
      /\ 0 < fairness_score(u)[1]
      /\ fairness_score(u)[1] <= fairness_score(u)[2]

\* The assessor chosen last already carried load when it was scored, and
\* an assessor of initial capacity 0 is in the table.
C19_Witness ==
  /\ i >= 2
  /\ \E u, v \in DOMAIN capacities :
       /\ second_supervisor[i] = u
       /\ capacities[u] + CapDen < capacities_initial[u]
       /\ capacities_initial[v] = 0

\* ---------------------------------------------------------------- C12
\* C12 as stated: after the run the load report has, for every assessor, a
\* second_marking_load equal to the number of output rows naming it and a
\* remaining_capacity = initial capacity - load, equal to the remaining
\* capacity of the ledger.
C12_ReportForEveryAssessor ==
  pc = "done" =>
    \A u \in AssessorNames :
      /\ u \in DOMAIN capacity_updated
      /\ capacity_updated[u].second_marking_load = load(u)
      /\ capacity_updated[u].remaining_capacity =
           capacities_initial[u] - load(u) * CapDen
      /\ capacity_updated[u].remaining_capacity = capacities[u]

\* C12 amended: the report has one row per row of the capacity table; for
\* every assessor with a capacity row the load is the number of output rows
\* naming it and remaining_capacity = initial capacity - load = the ledger's
\* remaining capacity; an assessor without a capacity row has no report row
\* and no output row names it.
C12_ReportForCapacityRows ==
  pc = "done" =>
    /\ DOMAIN capacity_updated = DOMAIN capacity
    /\ \A u \in AssessorNames :
         IF u \in DOMAIN capacity
         THEN /\ capacity_updated[u].second_marking_load = load(u)
              /\ capacity_updated[u].remaining_capacity =
                   capacities_initial[u] - load(u) * CapDen
              /\ capacity_updated[u].remaining_capacity = capacities[u]
         ELSE load(u) = 0

\* A finished run with an UNALLOCATED row, an assessor reported with load 2
\* and an assessor reported with load 0.
C12_Witness ==
  /\ pc = "done"
  /\ \E p \in 1..Len(second_supervisor) : ~Assigned(p)
  /\ \E u, v \in DOMAIN capacity_updated :
       /\ capacity_updated[u].second_marking_load = 2
       /\ capacity_updated[v].second_marking_load = 0

\* ---------------------------------------------------------------- C13
\* A profile without any term: empty text or stop words only.
Degenerate(row) ==
  \A k \in 1..Len(profile_text(row)) : profile_text(row)[k] \in StopWords

\* C13: build_similarity_matrix never raises; a project or assessor profile
\* that is empty or stop-word-only has similarity 0 to every other profile,
\* also when every profile of the corpus is like that.
C13_DegenerateTextGivesZeros ==
  /\ pc # "raised"
  /\ pc = "built" =>
    \A p \in 1..Len(sim_projects) : \A a \in 1..Len(sim_assessors) :
      (Degenerate(sim_projects[p]) \/ Degenerate(sim_assessors[a]))
        => similarity[p][a] = Zero

\* ---------------------------------------------------------------- C14
\* The project and the assessor have the same text, with a term in it.
SameText(p, a) ==
  /\ profile_text(sim_projects[p]) = profile_text(sim_assessors[a])
  /\ ~Degenerate(sim_projects[p])

\* 1 - 4 and 1 + 4 units in the last place of 1.
NearOneLow == << Pow2(FloatBits - 1) - 4, 1 - FloatBits >>
NearOneHigh == << Pow2(FloatBits - 1) + 4, 1 - FloatBits >>

\* C14 as stated: every entry of the matrix is in [0, 1], and the entry of
\* a project and an assessor with the same text is exactly 1.
C14_ScoresInUnitInterval ==
  pc = "built" =>
    \A p \in 1..Len(sim_projects) : \A a \in 1..Len(sim_assessors) :
      /\ FLeq(Zero, similarity[p][a])
      /\ FLeq(similarity[p][a], One)
      /\ SameText(p, a) => similarity[p][a] = One

\* C14 amended: every entry is in [0, 1] up to rounding, at most 4 units in
\* the last place above 1, and the entry of a project and an assessor with
\* the same text is within 4 units in the last place of 1.
C14_ScoresInUnitIntervalRounded ==
  pc = "built" =>
    \A p \in 1..Len(sim_projects) : \A a \in 1..Len(sim_assessors) :
      /\ FLeq(Zero, similarity[p][a])
      /\ FLeq(similarity[p][a], NearOneHigh)
      /\ SameText(p, a) => FLeq(NearOneLow, similarity[p][a])

\* A project and an assessor with the same two-term text got a score that
\* is not 1, next to an assessor sharing only one term with the project.
C14_Witness ==
  /\ pc = "built"
  /\ \E p \in 1..Len(sim_projects) : \E a, b \in 1..Len(sim_assessors) :
       /\ SameText(p, a)
       /\ similarity[p][a] # One
       /\ similarity[p][b] # Zero
       /\ ~FLeq(One, similarity[p][b])

\* ---------------------------------------------------------------- C15
\* The tokens of a string: the parts between commas (or the ends of the
\* string) without their leading and trailing spaces, when not empty.
TokensOf(v) ==
  { SubSeq(v, lo, hi) : <<lo, hi>> \in
      { r \in (1..Len(v)) \X (1..Len(v)) :
          /\ r[1] <= r[2]
          /\ v[r[1]] # " " /\ v[r[2]] # " "
          /\ \A k \in r[1]..r[2] : v[k] # ","
          /\ \A k \in 1..(r[1] - 1) :
               (\A j \in k..(r[1] - 1) : v[j] # ",") => v[k] = " "
          /\ \A k \in (r[2] + 1)..Len(v) :
               (\A j \in (r[2] + 1)..k : v[j] # ",") => v[k] = " " } }

\* The tokens of the non-missing values of a Series.
TokensIn(series) ==
  UNION { TokensOf(series[k].value) :
            k \in { j \in 1..Len(series) : ~series[j].isna } }

\* The one arrangement of a set of strings in strictly ascending order.
Ascending(S) ==
  CHOOSE t \in [1..Cardinality(S) -> S] :
    \A j, k \in 1..Cardinality(S) : j < k => StrLess(t[j], t[k])

\* The strings of a list written one after another, separated by ", ".
RECURSIVE Listed(_)
Listed(t) ==
  IF Len(t) = 0 THEN << >>
  ELSE IF Len(t) = 1 THEN t[1]
  ELSE Listed(SubSeq(t, 1, Len(t) - 1)) \o << ",", " " >> \o t[Len(t)]

Reversed(t) == [ k \in 1..Len(t) |-> t[Len(t) + 1 - k] ]

\* C15: merge_unique returns the distinct non-empty trimmed comma-separated
\* tokens of its non-missing inputs, each once, in ascending order, joined
\* by ", "; the result is the same for the inputs in another order or
\* repeated, and merge_unique of its own output is that output.
C15_MergeUniqueCanonical ==
  pc = "merged" =>
    /\ merged = Listed(Ascending(TokensIn(values)))
    /\ merge_unique(Reversed(values)) = merged
    /\ merge_unique(values \o values) = merged
    /\ merge_unique(<< Text(merged) >>) = merged

\* Two non-missing values that share a token, one of them with a space to
\* trim, gave a result of at least two tokens that is none of the inputs.
C15_Witness ==
  /\ pc = "merged"
  /\ Len(values) = 2
  /\ ~values[1].isna /\ ~values[2].isna
  /\ TokensOf(values[1].value) \cap TokensOf(values[2].value) # {}
  /\ \E k \in 1..Len(values[1].value) : values[1].value[k] = " "
  /\ Cardinality(TokensIn(values)) >= 2
  /\ merged # values[1].value /\ merged # values[2].value
====
